---- MODULE Spec2Model ----
(***************************************************************************)
(* rendology: the Glow effect (src/pipeline/glow/mod.rs) and the uniform   *)
(* composition framework (src/shader/input.rs).                            *)
(*                                                                         *)
(* Two state machines share this module.  SpecGlow drives one Glow object  *)
(* through its public methods; SpecUniforms takes a uniform source,        *)
(* produces its view with to_uniforms(), visits the view and asks its type *)
(* for uniform_input_defs().                                               *)
(***************************************************************************)
EXTENDS Integers, Sequences, FiniteSets, TLC

(***************************************************************************)
(* Bounds of the model.                                                    *)
(***************************************************************************)
MaxPasses == 2

\* Config::default()
DefaultNumBlurPasses == 2

\* target_size: (u32, u32)
Sizes == {<<256, 256>>, <<512, 256>>}

\* The names the GL gives its texture objects.  Three are enough for two live
\* textures and the one being created while both still live.
TexIds == {1, 2, 3}

VARIABLES
    \* ---- Glow ----
    config,             \* Glow.config: [num_blur_passes]
    glow_texture,       \* Glow.glow_texture: [id, size, content]
    glow_texture_back,  \* Glow.glow_texture_back
    pc,                 \* position of the owner's current call into Glow
    frame,              \* locals of the running blur_pass call
    draws,              \* draws submitted by the latest blur_pass call
    result,             \* the latest call and what it returned
    scenario,           \* progress of resize -> clear_buffers -> blur_pass
    \* ---- uniform composition ----
    src,                \* the uniform source (a value of a type with ToUniforms)
    upc,                \* "source", "view" (to_uniforms called), "visited"
    view,               \* the view to_uniforms() returned
    emitted,            \* the calls the visitor callback received, in order
    defs                \* what uniform_input_defs() returned, once asked

glowVars == <<config, glow_texture, glow_texture_back, pc, frame, draws,
              result, scenario>>

uniVars == <<src, upc, view, emitted, defs>>

vars == <<glowVars, uniVars>>

(***************************************************************************)
(* Glow                                                                    *)
(***************************************************************************)

\* Texture2d::empty_with_format: a new texture object of the given size, its
\* contents not yet written.  The name the GL hands out is any name not in use.
\* A texture's content is abstracted to the operation that wrote it last:
\* "undef" (never written), "clear", "scene", "blur_v", "blur_h".
create_texture_swapped(id, size) ==
    [id |-> id, size |-> <<size[2], size[1]>>, content |-> "undef"]

create_texture(id, size) ==
    [id |-> id, size |-> size, content |-> "undef"]

NoFrame ==
    [glow_map |-> 0, glow_map_back |-> 0, glow_buffer |-> 0,
     glow_buffer_back |-> 0, i |-> 0, attempts |-> 0]

\* stage: 0 none, 1 after on_target_resize(size), 2 after the clear_buffers that
\* followed it, 3 after the blur_pass that followed that; resized: the resize
\* returned Ok; failed: one of the calls so far returned an error.
NoScenario == [stage |-> 0, size |-> <<0, 0>>, resized |-> FALSE, failed |-> FALSE]

Returned(op, ok, at) == [op |-> op, ok |-> ok, at |-> at]

\* Glow::create returning Ok: both textures allocated at target_size.
InitGlow ==
    /\ \E n \in (0..MaxPasses) \cup {DefaultNumBlurPasses} :
          config = [num_blur_passes |-> n]
    /\ \E size \in Sizes : \E id1 \in TexIds : \E id2 \in TexIds \ {id1} :
          /\ glow_texture = create_texture(id1, size)
          /\ glow_texture_back = create_texture(id2, size)
    /\ pc = "idle"
    /\ frame = NoFrame
    /\ draws = <<>>
    /\ result = Returned("create", TRUE, "")
    /\ scenario = NoScenario
    /\ src = <<"unit">>
    /\ upc = "source"
    /\ view = <<>>
    /\ emitted = <<>>
    /\ defs = <<"unasked">>

\* The names the GL may hand to a new texture: any name no live texture holds.
FreeIds(live) == TexIds \ live

\* Glow::on_target_resize, lines 165-166: the first create_texture result is
\* assigned to self.glow_texture (dropping the old texture) before the second
\* create_texture is attempted; `?` returns at the first failure.
ResizeFirstFails(size) ==
    /\ UNCHANGED <<glow_texture, glow_texture_back>>
    /\ result' = Returned("on_target_resize", FALSE, "glow_texture")

ResizeSecondFails(size) ==
    /\ \E id1 \in FreeIds({glow_texture.id, glow_texture_back.id}) :
          glow_texture' = create_texture(id1, size)
    /\ UNCHANGED glow_texture_back
    /\ result' = Returned("on_target_resize", FALSE, "glow_texture_back")

ResizeSucceeds(size) ==
    /\ \E id1 \in FreeIds({glow_texture.id, glow_texture_back.id}) :
          /\ glow_texture' = create_texture(id1, size)
          /\ \E id2 \in FreeIds({id1, glow_texture_back.id}) :
                glow_texture_back' = create_texture(id2, size)
    /\ result' = Returned("on_target_resize", TRUE, "")

on_target_resize(size) ==
    /\ pc = "idle"
    /\ \/ ResizeFirstFails(size)
       \/ ResizeSecondFails(size)
       \/ ResizeSucceeds(size)
    /\ scenario' = [stage |-> 1, size |-> size, resized |-> result'.ok,
                    failed |-> ~result'.ok]
    /\ frame' = NoFrame
    /\ draws' = <<>>
    /\ UNCHANGED <<config, pc>>
    /\ UNCHANGED uniVars

\* framebuffer.clear_color(0.0, 0.0, 0.0, 0.0) on the bound texture
ClearColor(tex) == [tex EXCEPT !.content = "clear"]

\* RenderPassComponent::clear_buffers: bind glow_texture, clear it.
clear_buffers ==
    /\ pc = "idle"
    /\ \/ /\ UNCHANGED glow_texture          \* SimpleFrameBuffer::new(..)? fails
          /\ result' = Returned("clear_buffers", FALSE, "bind")
       \/ /\ glow_texture' = ClearColor(glow_texture)
          /\ result' = Returned("clear_buffers", TRUE, "")
    /\ scenario' = IF scenario.stage = 1
                   THEN [scenario EXCEPT !.stage = 2,
                                         !.failed = @ \/ ~result'.ok]
                   ELSE NoScenario
    /\ frame' = NoFrame
    /\ draws' = <<>>
    /\ UNCHANGED <<config, glow_texture_back, pc>>
    /\ UNCHANGED uniVars

\* ScenePassComponent::output_textures: the scene pass draws into glow_texture
\* through the f_glow_color attachment.
output_textures == <<"f_glow_color", glow_texture.id>>

scene_pass ==
    /\ pc = "idle"
    /\ output_textures[2] = glow_texture.id
    /\ glow_texture' = [glow_texture EXCEPT !.content = "scene"]
    /\ result' = Returned("scene_pass", TRUE, "")
    /\ frame' = NoFrame
    /\ draws' = <<>>
    /\ UNCHANGED <<config, glow_texture_back, pc, scenario>>
    /\ UNCHANGED uniVars

\* ---- blur_pass ----

\* Sampler::new(&self.glow_texture), Sampler::new(&self.glow_texture_back)
glow_map_of == glow_texture.id

glow_map_back_same == glow_texture.id

glow_map_back_of == glow_texture_back.id

\* lines 121-128: the two samplers
blur_pass_begin ==
    /\ pc = "idle"
    /\ frame' = [NoFrame EXCEPT !.glow_map = glow_map_of,
                                !.glow_map_back = glow_map_back_of]
    /\ draws' = <<>>
    /\ pc' = "bind_glow"
    /\ scenario' = IF scenario.stage = 2 THEN scenario ELSE NoScenario
    /\ UNCHANGED <<config, glow_texture, glow_texture_back, result>>
    /\ UNCHANGED uniVars

\* `?` on a DrawError: blur_pass returns it at once.
blur_pass_return(ok, at) ==
    /\ pc' = "idle"
    /\ result' = Returned("blur_pass", ok, at)
    /\ scenario' = IF scenario.stage = 2
                   THEN [scenario EXCEPT !.stage = 3, !.failed = @ \/ ~ok]
                   ELSE NoScenario

\* line 130: SimpleFrameBuffer::new(facade, &self.glow_texture)?
bind_glow ==
    /\ pc = "bind_glow"
    /\ \/ /\ frame' = [frame EXCEPT !.glow_buffer = glow_texture.id]
          /\ pc' = "bind_back"
          /\ UNCHANGED <<result, scenario>>
       \/ /\ blur_pass_return(FALSE, "bind_glow")
          /\ UNCHANGED frame
    /\ UNCHANGED <<config, glow_texture, glow_texture_back, draws>>
    /\ UNCHANGED uniVars

\* line 131: SimpleFrameBuffer::new(facade, &self.glow_texture_back)?
bind_back ==
    /\ pc = "bind_back"
    /\ \/ /\ frame' = [frame EXCEPT !.glow_buffer_back = glow_texture_back.id]
          /\ pc' = "loop"
          /\ UNCHANGED <<result, scenario>>
       \/ /\ blur_pass_return(FALSE, "bind_back")
          /\ UNCHANGED frame
    /\ UNCHANGED <<config, glow_texture, glow_texture_back, draws>>
    /\ UNCHANGED uniVars

\* line 133: for _ in 0..self.config.num_blur_passes
LoopInclusive(i, n) == i <= n

LoopAtLeastOnce(i, n) == i = 0 \/ i < n

LoopContinues(i, n) == i < n

blur_loop ==
    /\ pc = "loop"
    /\ IF LoopContinues(frame.i, config.num_blur_passes)
       THEN /\ pc' = "draw_back"
            /\ UNCHANGED <<result, scenario>>
       ELSE blur_pass_return(TRUE, "")
    /\ UNCHANGED <<config, glow_texture, glow_texture_back, frame, draws>>
    /\ UNCHANGED uniVars

\* lines 134-143 and 145-154: the framebuffer drawn into and the uniforms
BackDraw(f) ==
    [target |-> f.glow_buffer_back, horizontal |-> FALSE, glow_texture |-> f.glow_map]

FrontDraw(f) ==
    [target |-> f.glow_buffer, horizontal |-> TRUE, glow_texture |-> f.glow_map_back]

\* What the blur program leaves in its target: a blur along one axis.
Blurred(d) == IF d.horizontal THEN "blur_h" ELSE "blur_v"

\* A completed draw writes the texture attached to its framebuffer.
Submit(d) ==
    /\ draws' = Append(draws, d)
    /\ glow_texture' = IF glow_texture.id = d.target
                       THEN [glow_texture EXCEPT !.content = Blurred(d)]
                       ELSE glow_texture
    /\ glow_texture_back' = IF glow_texture_back.id = d.target
                            THEN [glow_texture_back EXCEPT !.content = Blurred(d)]
                            ELSE glow_texture_back

\* Where blur_pass goes when a draw fails, next being the statement after the
\* draw: `?` returns the DrawError.
SwallowDrawError(next) == next

AfterFailedDraw(next) == "idle"

\* lines 134-143: glow_buffer_back.draw(..)?
draw_back ==
    /\ pc = "draw_back"
    /\ frame' = [frame EXCEPT !.attempts = @ + 1]
    /\ \/ /\ Submit(BackDraw(frame))
          /\ pc' = "draw_front"
          /\ UNCHANGED <<result, scenario>>
       \/ /\ UNCHANGED <<glow_texture, glow_texture_back, draws>>
          /\ IF AfterFailedDraw("draw_front") = "idle"
             THEN blur_pass_return(FALSE, "draw")
             ELSE /\ pc' = AfterFailedDraw("draw_front")
                  /\ UNCHANGED <<result, scenario>>
    /\ UNCHANGED config
    /\ UNCHANGED uniVars

\* lines 145-154: glow_buffer.draw(..)?
draw_front ==
    /\ pc = "draw_front"
    /\ \/ /\ Submit(FrontDraw(frame))
          /\ frame' = [frame EXCEPT !.attempts = @ + 1, !.i = @ + 1]
          /\ pc' = "loop"
          /\ UNCHANGED <<result, scenario>>
       \/ /\ UNCHANGED <<glow_texture, glow_texture_back, draws>>
          /\ IF AfterFailedDraw("loop") = "idle"
             THEN /\ frame' = [frame EXCEPT !.attempts = @ + 1]
                  /\ blur_pass_return(FALSE, "draw")
             ELSE /\ frame' = [frame EXCEPT !.attempts = @ + 1, !.i = @ + 1]
                  /\ pc' = AfterFailedDraw("loop")
                  /\ UNCHANGED <<result, scenario>>
    /\ UNCHANGED config
    /\ UNCHANGED uniVars

NextGlow ==
    \/ \E size \in Sizes : on_target_resize(size)
    \/ clear_buffers
    \/ scene_pass
    \/ blur_pass_begin
    \/ bind_glow
    \/ bind_back
    \/ blur_loop
    \/ draw_back
    \/ draw_front

SpecGlow == InitGlow /\ [][NextGlow]_vars

(***************************************************************************)
(* Claims about Glow, checked under SpecGlow.                              *)
(***************************************************************************)

InBlurPass == pc # "idle"
BlurReturned == pc = "idle" /\ result.op = "blur_pass"
BlurOk == BlurReturned /\ result.ok

\* C3: in every reachable state of a Glow effect, after create and after any
\* on_target_resize whether it succeeded or failed, glow_texture and
\* glow_texture_back have equal dimensions.
C3_EqualDimensions == glow_texture.size = glow_texture_back.size

\* C4: a blur_pass that returned Ok with num_blur_passes = k submitted exactly
\* 2k draws, whose render targets are glow_back, glow, glow_back, glow, ...
C4_DrawCountAndOrder ==
    BlurOk =>
        /\ Len(draws) = 2 * config.num_blur_passes
        /\ \A j \in 1..Len(draws) :
              draws[j].target = IF j % 2 = 1 THEN glow_texture_back.id
                                             ELSE glow_texture.id

C4_Witness ==
    /\ BlurOk
    /\ config.num_blur_passes = 2
    /\ Len(draws) = 4

\* C5: with num_blur_passes = 0 no step of blur_pass submits a draw or changes
\* the contents of glow_texture or glow_texture_back.
C5_ZeroPasses ==
    [][(config.num_blur_passes = 0 /\ (pc # "idle" \/ pc' # "idle")) =>
          /\ draws' = <<>>
          /\ glow_texture'.content = glow_texture.content
          /\ glow_texture_back'.content = glow_texture_back.content]_vars

C5_Witness ==
    /\ BlurOk
    /\ config.num_blur_passes = 0
    /\ draws = <<>>
    /\ glow_texture.content = "scene"

\* C6: blur_pass is fail-fast.  While the call runs every draw it attempted has
\* completed; a call that returned an error from a framebuffer bind submitted
\* no draw, and one that returned an error from its i-th draw completed exactly
\* i-1 draws.
C6_FailFast ==
    /\ InBlurPass => frame.attempts = Len(draws)
    /\ (BlurReturned /\ ~result.ok) =>
          /\ result.at \in {"bind_glow", "bind_back"} =>
                (frame.attempts = 0 /\ draws = <<>>)
          /\ result.at = "draw" =>
                (frame.attempts >= 1 /\ Len(draws) = frame.attempts - 1)

C6_Witness ==
    /\ BlurReturned
    /\ ~result.ok
    /\ result.at = "draw"
    /\ frame.attempts = 3
    /\ Len(draws) = 2

\* C8 (as stated): on_target_resize(new_size), then clear_buffers, then
\* blur_pass does not fail and leaves both textures at new_size.
C8_SequenceNeverFails ==
    scenario.stage = 3 =>
        /\ ~scenario.failed
        /\ glow_texture.size = scenario.size
        /\ glow_texture_back.size = scenario.size

\* C8 (amended): once on_target_resize(new_size) has returned Ok, both textures
\* are at new_size through the clear_buffers and the blur_pass that follow,
\* whether or not these return an error; and no step of clear_buffers or
\* blur_pass changes the size or the identity of either texture.
C8_SizesKept ==
    /\ []((scenario.stage >= 1 /\ scenario.resized) =>
            /\ glow_texture.size = scenario.size
            /\ glow_texture_back.size = scenario.size)
    /\ [][(pc # "idle" \/ pc' # "idle" \/ result'.op = "clear_buffers") =>
            /\ glow_texture'.id = glow_texture.id
            /\ glow_texture'.size = glow_texture.size
            /\ glow_texture_back'.id = glow_texture_back.id
            /\ glow_texture_back'.size = glow_texture_back.size]_vars

C8_Witness ==
    /\ scenario.stage = 3
    /\ scenario.resized
    /\ ~scenario.failed
    /\ Len(draws) >= 2
    /\ glow_texture.size = scenario.size
    /\ glow_texture_back.size = scenario.size

\* C9: every draw of blur_pass samples a texture other than the one it renders
\* to: the non-horizontal draw samples glow and writes glow_back, the
\* horizontal draw samples glow_back and writes glow; with num_blur_passes >= 1
\* the last draw of a successful blur_pass writes glow.
C9_PingPong ==
    /\ \A j \in 1..Len(draws) :
          /\ draws[j].glow_texture # draws[j].target
          /\ ~draws[j].horizontal =>
                /\ draws[j].glow_texture = glow_texture.id
                /\ draws[j].target = glow_texture_back.id
          /\ draws[j].horizontal =>
                /\ draws[j].glow_texture = glow_texture_back.id
                /\ draws[j].target = glow_texture.id
    /\ (BlurOk /\ config.num_blur_passes >= 1) =>
          /\ draws[Len(draws)].target = glow_texture.id
          /\ glow_texture.content = "blur_h"

C9_Witness ==
    /\ BlurOk
    /\ config.num_blur_passes >= 1
    /\ Len(draws) >= 2
    /\ draws[Len(draws)].horizontal

(***************************************************************************)
(* Uniform composition (src/shader/input.rs)                               *)
(*                                                                         *)
(* A source is one of                                                      *)
(*     <<"unit">>                    the empty source ()                  *)
(*     <<"decl", authored, self>>    a type declared with                 *)
(*                                   impl_uniform_input!: its authored     *)
(*                                   field list and the value of self      *)
(*     <<"pair", s1, s2>>            (U1, U2)                              *)
(*     <<"some", s>>, <<"none">>     Option<U>                             *)
(* An authored field is [name, ty, expr]: `$field: $type => $value`.       *)
(***************************************************************************)

MaxFields == 2
MaxNodes == 6

FieldNames == {"a", "b", "c"}

\* The shapes with a StaticUniformType impl, lines 347-377.
Shapes == {"bool", "f32", "[f32; 2]", "[f32; 3]", "[f32; 4]",
           "[[f32; 2]; 2]", "[[f32; 3]; 3]", "[[f32; 4]; 4]"}

\* $value expressions over self, and the values self can hold.
Exprs == {"self.x", "self.y"}

Selves == {[x |-> 0, y |-> 1], [x |-> 1, y |-> 0]}

Eval(expr, self) == IF expr = "self.x" THEN self.x ELSE self.y

\* The expression a declaration gives the field of each name.
ExprOf(name) == IF name = "b" THEN "self.y" ELSE "self.x"

AuthoredFields == {[name |-> n, ty |-> t, expr |-> ExprOf(n)] : n \in FieldNames, t \in Shapes}

\* Field lists of exactly n fields; a struct's field names are distinct.
FieldLists[n \in 0..MaxFields] ==
    IF n = 0 THEN {<<>>}
    ELSE UNION {{Append(l, f) :
                    f \in {g \in AuthoredFields :
                              \A i \in 1..Len(l) : l[i].name # g.name}} :
                l \in FieldLists[n - 1]}

Declarations == UNION {FieldLists[n] : n \in 0..MaxFields}

DeclSources == {<<"decl", authored, self>> : authored \in Declarations, self \in Selves}

\* The declared types that composite sources are built from; the name "a" is
\* a field of both.
LeafDeclarations ==
    {<<[name |-> "a", ty |-> "f32", expr |-> "self.x"]>>,
     <<[name |-> "b", ty |-> "bool", expr |-> "self.y"],
       [name |-> "a", ty |-> "[f32; 3]", expr |-> "self.x"]>>}

Leaves ==
    {<<"unit">>, <<"none">>} \cup
    {<<"decl", authored, self>> : authored \in LeafDeclarations, self \in Selves}

\* levels[n] being the composite sources of exactly n nodes for n <= Len(levels),
\* those of Len(levels) + 1 nodes: Some of a source, or a pair of two.
NextLevel(levels) ==
    {<<"some", s>> : s \in levels[Len(levels)]} \cup
    UNION {{<<"pair", s1, s2>> : s1 \in levels[k], s2 \in levels[Len(levels) - k]} :
           k \in 1..(Len(levels) - 1)}

RECURSIVE Levels(_)
Levels(n) ==
    IF n = 1 THEN <<Leaves>>
    ELSE LET prev == Levels(n - 1) IN Append(prev, NextLevel(prev))

Composites == LET levels == Levels(MaxNodes) IN UNION {levels[n] : n \in 1..MaxNodes}

Sources == DeclSources \cup Composites

\* ---- to_uniforms ----

\* AsUniformValue for the declared shape: the UniformValue variant wrapping
\* the field's value.
as_uniform_value(ty, v) ==
    CASE ty = "bool" -> <<"UniformValue::Bool", v>>
      [] ty = "f32" -> <<"UniformValue::Float", v>>
      [] ty = "[f32; 2]" -> <<"UniformValue::Vec2", v>>
      [] ty = "[f32; 3]" -> <<"UniformValue::Vec3", v>>
      [] ty = "[f32; 4]" -> <<"UniformValue::Vec4", v>>
      [] ty = "[[f32; 2]; 2]" -> <<"UniformValue::Mat2", v>>
      [] ty = "[[f32; 3]; 3]" -> <<"UniformValue::Mat3", v>>
      [] ty = "[[f32; 4]; 4]" -> <<"UniformValue::Mat4", v>>

\* lines 52-63: MyUniforms { $( $field: $value, )* }
MyUniforms(authored, self) ==
    <<"MyUniforms",
      [i \in 1..Len(authored) |->
          [field |-> authored[i].name, ty |-> authored[i].ty,
           value |-> Eval(authored[i].expr, self)]]>>

\* line 226: UniformsOption(self.as_ref().map(ToUniforms::to_uniforms)); the
\* Option is a sequence of no element or one.
UniformsOptionEmpty(inner) == <<"UniformsOption", <<>>>>

UniformsOption(inner) == <<"UniformsOption", inner>>

RECURSIVE ToUniforms(_)
ToUniforms(s) ==
    CASE s[1] = "unit" -> <<"EmptyUniforms">>
      [] s[1] = "decl" -> MyUniforms(s[2], s[3])
      [] s[1] = "pair" -> <<"UniformsPair", ToUniforms(s[2]), ToUniforms(s[3])>>
      [] s[1] = "some" -> UniformsOption(<<ToUniforms(s[2])>>)
      [] s[1] = "none" -> UniformsOption(<<>>)

\* ---- visit_values ----

\* The visitor callback: each call is recorded, in order.
Output(log, name, value) == Append(log, [name |-> name, value |-> value])

\* lines 42-44: output(stringify!($field), self.$field.as_uniform_value());
RECURSIVE VisitFields(_, _, _)
VisitFields(fields, k, log) ==
    IF k > Len(fields) THEN log
    ELSE VisitFields(fields, k + 1,
                     Output(log, fields[k].field,
                            as_uniform_value(fields[k].ty, fields[k].value)))

\* lines 275-276: the operands of a UniformsPair in the order they are visited
PairOrderSwapped(v) == <<v[3], v[2]>>

PairOrder(v) == <<v[2], v[3]>>

\* Uniforms::visit_values of each view type, the callback threaded through.
RECURSIVE VisitValues(_, _)
VisitValues(v, log) ==
    CASE v[1] = "EmptyUniforms" -> log
      [] v[1] = "MyUniforms" -> VisitFields(v[2], 1, log)
      [] v[1] = "UniformsPair" ->
            VisitValues(PairOrder(v)[2], VisitValues(PairOrder(v)[1], log))
      [] v[1] = "UniformsOption" ->
            IF Len(v[2]) = 1 THEN VisitValues(v[2][1], log) ELSE log

\* ---- uniform_input_defs ----

\* impl StaticUniformType, lines 347-377
StaticUniformTypeVec3As4(ty) ==
    CASE ty = "bool" -> "UniformType::Bool"
      [] ty = "f32" -> "UniformType::Float"
      [] ty = "[f32; 2]" -> "UniformType::FloatVec2"
      [] ty = "[f32; 3]" -> "UniformType::FloatVec4"
      [] ty = "[f32; 4]" -> "UniformType::FloatVec4"
      [] ty = "[[f32; 2]; 2]" -> "UniformType::FloatMat2"
      [] ty = "[[f32; 3]; 3]" -> "UniformType::FloatMat3"
      [] ty = "[[f32; 4]; 4]" -> "UniformType::FloatMat4"

StaticUniformType(ty) ==
    CASE ty = "bool" -> "UniformType::Bool"
      [] ty = "f32" -> "UniformType::Float"
      [] ty = "[f32; 2]" -> "UniformType::FloatVec2"
      [] ty = "[f32; 3]" -> "UniformType::FloatVec3"
      [] ty = "[f32; 4]" -> "UniformType::FloatVec4"
      [] ty = "[[f32; 2]; 2]" -> "UniformType::FloatMat2"
      [] ty = "[[f32; 3]; 3]" -> "UniformType::FloatMat3"
      [] ty = "[[f32; 4]; 4]" -> "UniformType::FloatMat4"

\* The type of a source: what the static uniform_input_defs() can see.
RECURSIVE TypeOf(_)
TypeOf(s) ==
    CASE s[1] = "unit" -> <<"()">>
      [] s[1] = "decl" -> <<"decl", s[2]>>
      [] s[1] = "pair" -> <<"pair", TypeOf(s[2]), TypeOf(s[3])>>
      [] OTHER -> <<"Option">>

\* The types with a UniformInput impl: (), (U1, U2) and the declared types.
RECURSIVE HasUniformInput(_)
HasUniformInput(t) ==
    CASE t[1] = "()" -> TRUE
      [] t[1] = "decl" -> TRUE
      [] t[1] = "pair" -> HasUniformInput(t[2]) /\ HasUniformInput(t[3])
      [] OTHER -> FALSE

\* lines 66-72: vec![ $( (stringify!($field).to_string(), <$type>::TYPE), )* ]
DeclaredDefs(authored) ==
    [i \in 1..Len(authored) |->
        <<authored[i].name, StaticUniformType(authored[i].ty)>>]

\* lines 336-339: result = U1 defs; result.append(U2 defs)
AppendDefsReversed(d1, d2) == d2 \o d1

AppendDefs(d1, d2) == d1 \o d2

RECURSIVE UniformInputDefs(_)
UniformInputDefs(t) ==
    CASE t[1] = "()" -> <<>>
      [] t[1] = "decl" -> DeclaredDefs(t[2])
      [] t[1] = "pair" -> AppendDefs(UniformInputDefs(t[2]), UniformInputDefs(t[3]))

\* ---- the state machine ----

\* No Glow object takes part.
GlowAbsent ==
    /\ config = [num_blur_passes |-> DefaultNumBlurPasses]
    /\ glow_texture = create_texture(1, <<256, 256>>)
    /\ glow_texture_back = create_texture(2, <<256, 256>>)
    /\ pc = "idle"
    /\ frame = NoFrame
    /\ draws = <<>>
    /\ result = Returned("create", TRUE, "")
    /\ scenario = NoScenario

InitUniforms ==
    /\ GlowAbsent
    /\ src \in Sources
    /\ upc = "source"
    /\ view = <<>>
    /\ emitted = <<>>
    /\ defs = <<"unasked">>

to_uniforms ==
    /\ upc = "source"
    /\ view' = ToUniforms(src)
    /\ upc' = "view"
    /\ UNCHANGED <<src, emitted, defs>>
    /\ UNCHANGED glowVars

visit_values ==
    /\ upc = "view"
    /\ emitted' = VisitValues(view, <<>>)
    /\ upc' = "visited"
    /\ UNCHANGED <<src, view, defs>>
    /\ UNCHANGED glowVars

uniform_input_defs ==
    /\ defs = <<"unasked">>
    /\ HasUniformInput(TypeOf(src))
    /\ defs' = <<"defs", UniformInputDefs(TypeOf(src))>>
    /\ UNCHANGED <<src, upc, view, emitted>>
    /\ UNCHANGED glowVars

NextUniforms ==
    \/ to_uniforms
    \/ visit_values
    \/ uniform_input_defs

SpecUniforms == InitUniforms /\ [][NextUniforms]_vars

(***************************************************************************)
(* Claims about uniform composition, checked under SpecUniforms.           *)
(***************************************************************************)

\* What visiting the view of source s emits, from an empty callback log.
Visited(s) == VisitValues(ToUniforms(s), <<>>)

NamesOf(pairs) == [i \in 1..Len(pairs) |-> pairs[i].name]

DefNames(d) == [i \in 1..Len(d) |-> d[i][1]]

\* C1: visiting the view of the pair (A, B) calls the callback with exactly
\* the pairs visiting A's view emits, then exactly those visiting B's view
\* emits, whatever A and B are and also when they share a name.
C1_PairIsConcatenation ==
    (upc = "visited" /\ src[1] = "pair") =>
        emitted = Visited(src[2]) \o Visited(src[3])

C1_Witness ==
    /\ upc = "visited"
    /\ src[1] = "pair"
    /\ src[2][1] = "pair"
    /\ src[3][1] = "some"
    /\ Visited(src[2]) # <<>>
    /\ Visited(src[3]) # <<>>
    /\ \E i \in 1..Len(Visited(src[2])) : \E j \in 1..Len(Visited(src[3])) :
          /\ Visited(src[2])[i].name = Visited(src[3])[j].name
          /\ Visited(src[2])[i].value # Visited(src[3])[j].value
    /\ emitted # Visited(src[3]) \o Visited(src[2])

\* C2: the view of None emits nothing and the view of Some(x) emits exactly
\* what x's view emits; in a pair holding an option, what is emitted for the
\* sibling is the same whether the option is None or Some.
C2_Option ==
    upc = "visited" =>
        /\ src[1] = "none" => emitted = <<>>
        /\ src[1] = "some" => emitted = Visited(src[2])
        /\ (src[1] = "pair" /\ src[2][1] = "some") =>
              /\ Visited(<<"pair", <<"none">>, src[3]>>) = Visited(src[3])
              /\ emitted = Visited(src[2][2]) \o Visited(<<"pair", <<"none">>, src[3]>>)
        /\ (src[1] = "pair" /\ src[3][1] = "some") =>
              /\ Visited(<<"pair", src[2], <<"none">>>>) = Visited(src[2])
              /\ emitted = Visited(<<"pair", src[2], <<"none">>>>) \o Visited(src[3][2])
        /\ (src[1] = "pair" /\ src[2][1] = "none") => emitted = Visited(src[3])
        /\ (src[1] = "pair" /\ src[3][1] = "none") => emitted = Visited(src[2])

C2_Witness ==
    /\ upc = "visited"
    /\ src[1] = "pair"
    /\ src[2][1] = "some"
    /\ src[2][2][1] = "decl"
    /\ Len(Visited(src[2][2])) = 2
    /\ src[3][1] = "decl"
    /\ Len(emitted) = 3

\* The StaticUniformType table as the specification states it.
C7_Tag(ty) ==
    CASE ty = "bool" -> "UniformType::Bool"
      [] ty = "f32" -> "UniformType::Float"
      [] ty = "[f32; 2]" -> "UniformType::FloatVec2"
      [] ty = "[f32; 3]" -> "UniformType::FloatVec3"
      [] ty = "[f32; 4]" -> "UniformType::FloatVec4"
      [] ty = "[[f32; 2]; 2]" -> "UniformType::FloatMat2"
      [] ty = "[[f32; 3]; 3]" -> "UniformType::FloatMat3"
      [] ty = "[[f32; 4]; 4]" -> "UniformType::FloatMat4"

\* C7: for a declared type with authored fields f1..fn, uniform_input_defs()
\* returns exactly n entries in the authored order, entry i being fi's name
\* with the tag the StaticUniformType table gives fi's declared shape.
C7_DefsFollowDeclaration ==
    (defs[1] = "defs" /\ src[1] = "decl") =>
        /\ Len(defs[2]) = Len(src[2])
        /\ \A i \in 1..Len(src[2]) :
              defs[2][i] = <<src[2][i].name, C7_Tag(src[2][i].ty)>>

C7_Witness ==
    /\ defs[1] = "defs"
    /\ src[1] = "decl"
    /\ Len(src[2]) = 2
    /\ src[2][1].name = "b"
    /\ src[2][1].ty = "[f32; 3]"
    /\ src[2][2].name = "a"
    /\ src[2][2].ty = "[[f32; 4]; 4]"
    /\ defs[2] = <<<<"b", "UniformType::FloatVec3">>, <<"a", "UniformType::FloatMat4">>>>

\* C10: for a source built from declared types, () and pairs of these, the
\* names uniform_input_defs() returns are, in length and order, the names
\* visiting the view of to_uniforms() emits.
C10_DefsNamesAreVisitedNames ==
    (defs[1] = "defs" /\ upc = "visited") =>
        DefNames(defs[2]) = NamesOf(emitted)

C10_Witness ==
    /\ defs[1] = "defs"
    /\ upc = "visited"
    /\ src[1] = "pair"
    /\ src[2][1] = "pair"
    /\ src[3][1] = "decl"
    /\ Len(emitted) >= 3
    /\ DefNames(defs[2]) = NamesOf(emitted)

====
